---------------------------- MODULE Spec2Model ----------------------------
(***************************************************************************)
(* Content factory: the Helmar CEO agent (agents/ceo/helmar.ts), the       *)
(* orchestrator that drives it from cron and HTTP (orchestrator.ts), the   *)
(* stand-alone runner (scripts/run-helmar.ts) and the ContentManager       *)
(* department worker (agents/managers/content.ts).                         *)
(*                                                                         *)
(* The specifications of the module:                                       *)
(*   SpecGate  the pure autonomy check HelmarCEO.canDecideAutonomously     *)
(*             applied to a bounded set of action strings;                 *)
(*   SpecCM    one ContentManager receiving tasks whose work succeeds or   *)
(*             throws after its timers;                                    *)
(*   SpecCMClient  the same manager with a client that also assigns its    *)
(*             public status field and calls getStatus;                    *)
(*   SpecCMLoad    the same manager given more than five tasks;            *)
(*   SpecCMLive    SpecCMLoad with the timers of the work firing;          *)
(*   Spec      one HelmarCEO driven either by the orchestrator (cron       *)
(*             schedule over half-hour slots, HTTP requests, signals) or   *)
(*             by the runHelmar script;                                    *)
(*   SpecManageFault    runHelmar when a step of manageDepartments may     *)
(*             reject;                                                     *)
(*   SpecBriefingFault  the orchestrator when morningBriefing may reject;  *)
(*   SpecFair  the orchestrator with its timers, signals and emergency     *)
(*             stop, under the fairness of the event loop.                 *)
(*                                                                         *)
(* Strings that the code inspects are sequences of one-character strings,  *)
(* so toLowerCase and includes are computed, not assumed.                  *)
(***************************************************************************)
EXTENDS Integers, Sequences, FiniteSets, TLC

VARIABLES
  \* ---- autonomy check under test (SpecGate)
  gateAction,       \* the action string handed to canDecideAutonomously
  gateResult,       \* << >> before the call, then <<the boolean it returned>>
  \* ---- ContentManager (SpecCM)
  status,           \* 'online' | 'offline' | 'busy'
  currentTasks,     \* DepartmentTask[] in push order
  performance,      \* tasksCompleted, tasksTotal, successRate
  processing,       \* taskIds whose processTask is suspended at an await
  started,          \* taskIds in the order processTask was entered
  received,         \* number of receiveTask calls made so far
  thrown,           \* taskIds whose work threw
  uncaught,         \* taskIds whose exception reached the caller of receiveTask
  returned,         \* the object getStatus returned last, or Null
  \* ---- HelmarCEO and its driver (Spec)
  mode,             \* "orchestrator" | "script": which program owns the agent
  currentStrategy,  \* Strategy | null
  dailyPlan,        \* DailyPlan | null
  issues,           \* Issue[]
  run,              \* the agent method in progress and its locals
  emitted,          \* the DailyPlans returned so far, oldest first
  lastReport,       \* the DailyReport returned last, or NoReport
  achievements,     \* Achievement[]
  departments,      \* Map<string, DepartmentManager>
  implemented,      \* strategies handed to implementStrategy
  monitored,        \* departments monitorProgress ran for since the last report
  manage,           \* the latest manageDepartments call: its outcome, the steps
                    \* completed per department, the departments whose error
                    \* was caught
  failures,         \* the morningBriefing calls that threw, oldest first: who
                    \* called, how many plans had been returned, and whether
                    \* the caller's handling changed proc or isRunning
  suspended,        \* agent calls waiting at an await while a call entered
                    \* later runs, oldest first
  isRunning,        \* ContentFactoryOrchestrator.isRunning
  proc,             \* "constructed" | "up" | "shuttingDown" | "exited" (0) |
                    \* "exited1" (process.exit(1))
  loop,             \* continuousOperation: "none" | "sleeping" | "ended"
  day,              \* calendar day of the wall clock (1, 2, ...)
  slot,             \* half hour of the day, 0 (00:00) .. 47 (23:30)
  uptime,           \* half hours elapsed since the process started
  due,              \* cron jobs of this slot whose callback has not run yet
  scriptPc          \* runHelmar: number of agent calls completed

gateVars == <<gateAction, gateResult>>
cmVars == <<status, currentTasks, performance, processing, started, received,
           thrown, uncaught, returned>>
agentVars == <<currentStrategy, dailyPlan, issues, achievements, departments, run,
               emitted, lastReport, implemented, monitored, manage, failures,
               suspended>>
driverVars == <<mode, isRunning, proc, loop, day, slot, uptime, due, scriptPc>>
vars == <<gateVars, cmVars, agentVars, driverVars>>

-----------------------------------------------------------------------------
(* Bounds of the model *)

\* fragments concatenated into one action string
MaxFragments == 2
\* receiveTask calls made on the ContentManager
MaxTasks == 3
\* morningBriefing calls over the life of the process
MaxBriefings == 2
\* half hours the process is followed for after its start
MaxUptime == 2
\* morningBriefing calls that throw
MaxFailures == 1
\* receiveTask calls made on a ContentManager followed for its load
MaxLoad == 6

-----------------------------------------------------------------------------
(* config/autonomy-rules.ts *)

\* canDecideAutonomously (the strings of the list, character by character)
Rules_canDecideAutonomously ==
  <<
    (* Daily content themes and topics *)
      <<"D","a","i","l","y"," ","c","o","n","t","e","n","t"," ","t","h","e","m","e","s",
        " ","a","n","d"," ","t","o","p","i","c","s">>,
    (* Budget allocation under $1000 *)
      <<"B","u","d","g","e","t"," ","a","l","l","o","c","a","t","i","o","n"," ","u","n",
        "d","e","r"," ","$","1","0","0","0">>,
    (* Team task assignment and prioritization *)
      <<"T","e","a","m"," ","t","a","s","k"," ","a","s","s","i","g","n","m","e","n","t",
        " ","a","n","d"," ","p","r","i","o","r","i","t","i","z","a","t","i","o","n">>,
    (* Performance optimization strategies *)
      <<"P","e","r","f","o","r","m","a","n","c","e"," ","o","p","t","i","m","i","z","a",
        "t","i","o","n"," ","s","t","r","a","t","e","g","i","e","s">>,
    (* Content scheduling and publishing *)
      <<"C","o","n","t","e","n","t"," ","s","c","h","e","d","u","l","i","n","g"," ","a",
        "n","d"," ","p","u","b","l","i","s","h","i","n","g">>,
    (* A/B testing experiments *)
      <<"A","/","B"," ","t","e","s","t","i","n","g"," ","e","x","p","e","r","i","m","e",
        "n","t","s">>,
    (* Resource allocation across departments *)
      <<"R","e","s","o","u","r","c","e"," ","a","l","l","o","c","a","t","i","o","n"," ",
        "a","c","r","o","s","s"," ","d","e","p","a","r","t","m","e","n","t","s">>,
    (* Minor workflow adjustments *)
      <<"M","i","n","o","r"," ","w","o","r","k","f","l","o","w"," ","a","d","j","u","s",
        "t","m","e","n","t","s">>,
    (* Social media engagement responses *)
      <<"S","o","c","i","a","l"," ","m","e","d","i","a"," ","e","n","g","a","g","e","m",
        "e","n","t"," ","r","e","s","p","o","n","s","e","s">>,
    (* Content format selection *)
      <<"C","o","n","t","e","n","t"," ","f","o","r","m","a","t"," ","s","e","l","e","c",
        "t","i","o","n">>,
    (* Posting frequency optimization *)
      <<"P","o","s","t","i","n","g"," ","f","r","e","q","u","e","n","c","y"," ","o","p",
        "t","i","m","i","z","a","t","i","o","n">>,
    (* Audience targeting refinements *)
      <<"A","u","d","i","e","n","c","e"," ","t","a","r","g","e","t","i","n","g"," ","r",
        "e","f","i","n","e","m","e","n","t","s">>
  >>

\* requiresApproval (the strings of the list, character by character)
Rules_requiresApproval ==
  <<
    (* Major strategy pivots or business model changes *)
      <<"M","a","j","o","r"," ","s","t","r","a","t","e","g","y"," ","p","i","v","o","t",
        "s"," ","o","r"," ","b","u","s","i","n","e","s","s"," ","m","o","d","e","l"," ",
        "c","h","a","n","g","e","s">>,
    (* Budget expenditure over $1000 *)
      <<"B","u","d","g","e","t"," ","e","x","p","e","n","d","i","t","u","r","e"," ","o",
        "v","e","r"," ","$","1","0","0","0">>,
    (* New market or platform entry *)
      <<"N","e","w"," ","m","a","r","k","e","t"," ","o","r"," ","p","l","a","t","f","o",
        "r","m"," ","e","n","t","r","y">>,
    (* Staff restructuring or role changes *)
      <<"S","t","a","f","f"," ","r","e","s","t","r","u","c","t","u","r","i","n","g"," ",
        "o","r"," ","r","o","l","e"," ","c","h","a","n","g","e","s">>,
    (* Partnership agreements and collaborations *)
      <<"P","a","r","t","n","e","r","s","h","i","p"," ","a","g","r","e","e","m","e","n",
        "t","s"," ","a","n","d"," ","c","o","l","l","a","b","o","r","a","t","i","o","n",
        "s">>,
    (* Brand guidelines major modifications *)
      <<"B","r","a","n","d"," ","g","u","i","d","e","l","i","n","e","s"," ","m","a","j",
        "o","r"," ","m","o","d","i","f","i","c","a","t","i","o","n","s">>,
    (* Legal compliance deviations *)
      <<"L","e","g","a","l"," ","c","o","m","p","l","i","a","n","c","e"," ","d","e","v",
        "i","a","t","i","o","n","s">>,
    (* Product pricing changes *)
      <<"P","r","o","d","u","c","t"," ","p","r","i","c","i","n","g"," ","c","h","a","n",
        "g","e","s">>,
    (* Market expansion strategies *)
      <<"M","a","r","k","e","t"," ","e","x","p","a","n","s","i","o","n"," ","s","t","r",
        "a","t","e","g","i","e","s">>,
    (* Technology stack modifications *)
      <<"T","e","c","h","n","o","l","o","g","y"," ","s","t","a","c","k"," ","m","o","d",
        "i","f","i","c","a","t","i","o","n","s">>
  >>

\* mustReport (the strings of the list, character by character)
Rules_mustReport ==
  <<
    (* Daily performance metrics and KPIs *)
      <<"D","a","i","l","y"," ","p","e","r","f","o","r","m","a","n","c","e"," ","m","e",
        "t","r","i","c","s"," ","a","n","d"," ","K","P","I","s">>,
    (* Revenue and expense summaries *)
      <<"R","e","v","e","n","u","e"," ","a","n","d"," ","e","x","p","e","n","s","e"," ",
        "s","u","m","m","a","r","i","e","s">>,
    (* Department status updates *)
      <<"D","e","p","a","r","t","m","e","n","t"," ","s","t","a","t","u","s"," ","u","p",
        "d","a","t","e","s">>,
    (* System errors and resolutions *)
      <<"S","y","s","t","e","m"," ","e","r","r","o","r","s"," ","a","n","d"," ","r","e",
        "s","o","l","u","t","i","o","n","s">>,
    (* Content performance analytics *)
      <<"C","o","n","t","e","n","t"," ","p","e","r","f","o","r","m","a","n","c","e"," ",
        "a","n","a","l","y","t","i","c","s">>,
    (* Budget utilization reports *)
      <<"B","u","d","g","e","t"," ","u","t","i","l","i","z","a","t","i","o","n"," ","r",
        "e","p","o","r","t","s">>,
    (* Security incidents or breaches *)
      <<"S","e","c","u","r","i","t","y"," ","i","n","c","i","d","e","n","t","s"," ","o",
        "r"," ","b","r","e","a","c","h","e","s">>,
    (* Customer feedback and complaints *)
      <<"C","u","s","t","o","m","e","r"," ","f","e","e","d","b","a","c","k"," ","a","n",
        "d"," ","c","o","m","p","l","a","i","n","t","s">>,
    (* Competitive analysis insights *)
      <<"C","o","m","p","e","t","i","t","i","v","e"," ","a","n","a","l","y","s","i","s",
        " ","i","n","s","i","g","h","t","s">>,
    (* Strategic recommendations *)
      <<"S","t","r","a","t","e","g","i","c"," ","r","e","c","o","m","m","e","n","d","a",
        "t","i","o","n","s">>
  >>

(* "Strategic planning within budget" *)
STRATEGIC_ACTION ==
  <<"S","t","r","a","t","e","g","i","c"," ","p","l","a","n","n","i","n","g"," ","w","i",
    "t","h","i","n"," ","b","u","d","g","e","t">>

HELMAR_AUTONOMY_RULES ==
  [canDecideAutonomously |-> Rules_canDecideAutonomously,
   requiresApproval      |-> Rules_requiresApproval,
   mustReport            |-> Rules_mustReport]

\* DECISION_THRESHOLDS.BUDGET_LIMIT
BUDGET_LIMIT == 1000
\* DECISION_THRESHOLDS.TASK_SUCCESS_RATE_MINIMUM = 0.95, as numerator/denominator
TASK_SUCCESS_RATE_MINIMUM == <<95, 100>>

-----------------------------------------------------------------------------
(* Strings and numbers *)

UpperCase == <<"A","B","C","D","E","F","G","H","I","J","K","L","M",
               "N","O","P","Q","R","S","T","U","V","W","X","Y","Z">>
LowerCase == <<"a","b","c","d","e","f","g","h","i","j","k","l","m",
               "n","o","p","q","r","s","t","u","v","w","x","y","z">>

\* String.prototype.toLowerCase
toLowerCase(s) ==
  [i \in 1..Len(s) |->
     IF \E k \in 1..Len(UpperCase) : UpperCase[k] = s[i]
     THEN LowerCase[CHOOSE k \in 1..Len(UpperCase) : UpperCase[k] = s[i]]
     ELSE s[i]]

\* String.prototype.toUpperCase (used only to build inputs)
toUpperCase(s) ==
  [i \in 1..Len(s) |->
     IF \E k \in 1..Len(LowerCase) : LowerCase[k] = s[i]
     THEN UpperCase[CHOOSE k \in 1..Len(LowerCase) : LowerCase[k] = s[i]]
     ELSE s[i]]

\* String.prototype.includes
includes(s, sub) ==
  \E i \in 1..(Len(s) - Len(sub) + 1) : SubSeq(s, i, i + Len(sub) - 1) = sub

\* Array.prototype.some over a rule list with the matching of canDecideAutonomously
matchesRule(rules, action) ==
  \E r \in 1..Len(rules) : includes(toLowerCase(action), toLowerCase(rules[r]))

\* a JavaScript number that is a ratio of two small integers, as <<num, den>>
RatioLess(a, b) == a[1] * b[2] < b[1] * a[2]
RatioEq(a, b) == a[1] * b[2] = b[1] * a[2]

Min(a, b) == IF a < b THEN a ELSE b

-----------------------------------------------------------------------------
(* HelmarCEO.canDecideAutonomously *)

canDecideAutonomously(action) ==
  matchesRule(HELMAR_AUTONOMY_RULES.canDecideAutonomously, action)

-----------------------------------------------------------------------------
(* SpecGate: the autonomy check applied to action strings *)

AllButLast(s) == SubSeq(s, 1, Len(s) - 1)

Fragments ==
  { <<>>,
    STRATEGIC_ACTION,
    <<" ","f","o","r"," ">>,
    HELMAR_AUTONOMY_RULES.canDecideAutonomously[2],
    toUpperCase(HELMAR_AUTONOMY_RULES.canDecideAutonomously[6]),
    AllButLast(HELMAR_AUTONOMY_RULES.canDecideAutonomously[7]),
    HELMAR_AUTONOMY_RULES.requiresApproval[2],
    toLowerCase(HELMAR_AUTONOMY_RULES.requiresApproval[3]),
    toUpperCase(HELMAR_AUTONOMY_RULES.requiresApproval[10]),
    AllButLast(HELMAR_AUTONOMY_RULES.requiresApproval[5]) }

RECURSIVE Concatenations(_)
Concatenations(n) ==
  IF n = 0 THEN { <<>> }
  ELSE { a \o f : a \in Concatenations(n - 1), f \in Fragments }

ActionInputs == Concatenations(MaxFragments)

NoGate == /\ gateAction = <<>>
          /\ gateResult = <<>>

\* a caller evaluates the check on gateAction
Evaluate ==
  /\ gateResult = <<>>
  /\ gateResult' = <<canDecideAutonomously(gateAction)>>
  /\ UNCHANGED <<gateAction, cmVars, agentVars, driverVars>>

-----------------------------------------------------------------------------
(* ContentManager (agents/managers/content.ts)                             *)
(*                                                                         *)
(* The work functions behind processTask's switch (createSocialMediaPosts, *)
(* optimizeContent, analyzeCompetitors, handleGenericTask) write only      *)
(* contentBuffer and performanceMetrics, which nothing else reads; what    *)
(* the manager's state depends on is whether the awaited work returns or   *)
(* throws, and when.  A task is therefore submitted with the fields the    *)
(* manager keeps (priority, deadline, status) and its work ends by one of  *)
(* two steps: processTaskReturns or processTaskThrows.                     *)

Null == [null |-> TRUE]
Idle == [op |-> "idle"]

Priorities == {"high", "medium", "low"}

\* the tasks a caller may hand to receiveTask: the n-th call carries taskId n;
\* deadlines are hours from now, as generateDepartmentTasks sets them
TaskInputs ==
  [department : {"content"}, priority : Priorities,
   deadline : {12, 24}, status : {"pending"}]

InitialPerformance ==
  [tasksCompleted |-> 0, tasksTotal |-> 0, successRate |-> <<0, 1>>]

NoManager ==
  /\ status = "online"
  /\ currentTasks = <<>>
  /\ performance = InitialPerformance
  /\ processing = {}
  /\ started = <<>>
  /\ received = 0
  /\ thrown = {}
  /\ uncaught = {}
  /\ returned = Null

TaskIds(tasks) == { tasks[i].taskId : i \in 1..Len(tasks) }

IndexOf(tasks, id) == CHOOSE i \in 1..Len(tasks) : tasks[i].taskId = id

Occurrences(seq, x) == Cardinality({ i \in 1..Len(seq) : seq[i] = x })

\* ContentManager.updatePerformanceMetrics: the new <<successRate, status>>
updatePerformanceMetrics(perf, tasks, st) ==
  LET pendingTasks ==
        { i \in 1..Len(tasks) : tasks[i].status \in {"pending", "in-progress"} }
  IN  << <<perf.tasksCompleted, perf.tasksTotal>>,
         IF pendingTasks = {} THEN "online" ELSE st >>

PriorityRank(p) == CASE p = "high" -> 1 [] p = "medium" -> 2 [] p = "low" -> 3

\* the position a task of priority p and deadline d takes in a list kept in
\* priority order, earliest deadline first within a priority
SortedPosition(tasks, p, d) ==
  1 + Cardinality({ i \in 1..Len(tasks) :
                      \/ PriorityRank(tasks[i].priority) < PriorityRank(p)
                      \/ /\ tasks[i].priority = p
                         /\ tasks[i].deadline <= d })

\* Variant of ReceiveTask: the task list is kept sorted by priority and deadline
ReceiveTask_KeepsListSorted(input) ==
  LET task == [taskId |-> received + 1, department |-> input.department,
               priority |-> input.priority, deadline |-> input.deadline,
               status |-> input.status]
      at == SortedPosition(currentTasks, task.priority, task.deadline)
  IN  /\ received' = received + 1
      /\ currentTasks' = SubSeq(currentTasks, 1, at - 1) \o <<task>>
                           \o SubSeq(currentTasks, at, Len(currentTasks))
      /\ performance' = [performance EXCEPT !.tasksTotal = @ + 1]
      /\ status' = IF Len(currentTasks') > 5 THEN "busy" ELSE status
      /\ started' = Append(started, task.taskId)
      /\ processing' = processing \cup {task.taskId}
      /\ UNCHANGED <<thrown, uncaught, returned>>

\* Variant of ReceiveTask: a task arriving while another is processed is rejected
ReceiveTask_RejectsWhenLoaded(input) ==
  LET task == [taskId |-> received + 1, department |-> input.department,
               priority |-> input.priority, deadline |-> input.deadline,
               status |-> input.status]
  IN  /\ received' = received + 1
      /\ IF processing # {}
         THEN UNCHANGED <<currentTasks, performance, status, started, processing>>
         ELSE /\ currentTasks' = Append(currentTasks, task)
              /\ performance' = [performance EXCEPT !.tasksTotal = @ + 1]
              /\ status' = IF Len(currentTasks') > 5 THEN "busy" ELSE status
              /\ started' = Append(started, task.taskId)
              /\ processing' = processing \cup {task.taskId}
      /\ UNCHANGED <<thrown, uncaught, returned>>

\* Variant of ReceiveTask: the manager is busy as soon as it holds a task
ReceiveTask_BusyOnAccept(input) ==
  LET task == [taskId |-> received + 1, department |-> input.department,
               priority |-> input.priority, deadline |-> input.deadline,
               status |-> input.status]
  IN  /\ received' = received + 1
      /\ currentTasks' = Append(currentTasks, task)
      /\ performance' = [performance EXCEPT !.tasksTotal = @ + 1]
      /\ status' = "busy"
      /\ started' = Append(started, task.taskId)
      /\ processing' = processing \cup {task.taskId}
      /\ UNCHANGED <<thrown, uncaught, returned>>

\* Variant of ReceiveTask: the received task is not counted in tasksTotal
ReceiveTask_DoesNotCount(input) ==
  LET task == [taskId |-> received + 1, department |-> input.department,
               priority |-> input.priority, deadline |-> input.deadline,
               status |-> input.status]
  IN  /\ received' = received + 1
      /\ currentTasks' = Append(currentTasks, task)
      /\ status' = IF Len(currentTasks') > 5 THEN "busy" ELSE status
      /\ started' = Append(started, task.taskId)
      /\ processing' = processing \cup {task.taskId}
      /\ UNCHANGED <<performance, thrown, uncaught, returned>>

\* ContentManager.receiveTask(task), up to the first await of processTask
ReceiveTask(input) ==
  LET task == [taskId |-> received + 1, department |-> input.department,
               priority |-> input.priority, deadline |-> input.deadline,
               status |-> input.status]
  IN  /\ received' = received + 1
      /\ currentTasks' = Append(currentTasks, task)
      /\ performance' = [performance EXCEPT !.tasksTotal = @ + 1]
      /\ status' = IF Len(currentTasks') > 5 THEN "busy" ELSE status
      \* this.processTask(task) runs to the await of its work
      /\ started' = Append(started, task.taskId)
      /\ processing' = processing \cup {task.taskId}
      /\ UNCHANGED <<thrown, uncaught, returned>>

\* Variant of processTaskReturns: processTask ends without marking the task
\* completed
processTaskReturns_LeavesPending(id) ==
  /\ id \in processing
  /\ processing' = processing \ {id}
  /\ UNCHANGED <<currentTasks, performance, status, started, received, thrown,
                 uncaught, returned>>

\* ContentManager.processTask: the awaited work returned
processTaskReturns(id) ==
  LET i == IndexOf(currentTasks, id)
      tasks == [currentTasks EXCEPT ![i].status = "completed"]
      perf == [performance EXCEPT !.tasksCompleted = @ + 1]
      upd == updatePerformanceMetrics(perf, tasks, status)
  IN  /\ id \in processing
      /\ processing' = processing \ {id}
      /\ currentTasks' = tasks
      /\ performance' = [perf EXCEPT !.successRate = upd[1]]
      /\ status' = upd[2]
      /\ UNCHANGED <<started, received, thrown, uncaught, returned>>

\* Variant of processTaskThrows: the catch block runs the task again
processTaskThrows_Retries(id) ==
  /\ id \in processing
  /\ thrown' = thrown \cup {id}
  /\ started' = Append(started, id)
  /\ UNCHANGED <<processing, currentTasks, status, performance, received,
                 uncaught, returned>>

\* Variant of processTaskThrows: processTask without its try/catch and
\* receiveTask awaiting it: the task is left as it was and the exception
\* reaches the caller of receiveTask
processTaskThrows_Uncaught(id) ==
  /\ id \in processing
  /\ processing' = processing \ {id}
  /\ thrown' = thrown \cup {id}
  /\ uncaught' = uncaught \cup {id}
  /\ UNCHANGED <<currentTasks, status, performance, started, received, returned>>

\* ContentManager.processTask: the awaited work threw (the catch block)
processTaskThrows(id) ==
  LET i == IndexOf(currentTasks, id)
  IN  /\ id \in processing
      /\ processing' = processing \ {id}
      /\ currentTasks' = [currentTasks EXCEPT ![i].status = "blocked"]
      /\ thrown' = thrown \cup {id}
      /\ UNCHANGED <<status, performance, started, received, uncaught, returned>>

Receive ==
  /\ received < MaxTasks
  /\ \E input \in TaskInputs : ReceiveTask(input)
  /\ UNCHANGED <<gateVars, agentVars, driverVars>>

WorkReturns ==
  /\ \E id \in processing : processTaskReturns(id)
  /\ UNCHANGED <<gateVars, agentVars, driverVars>>

WorkThrows ==
  /\ \E id \in processing : processTaskThrows(id)
  /\ UNCHANGED <<gateVars, agentVars, driverVars>>

\* the rest of the manager's public surface, as a client may use it

\* the task the CEO generates for this department (generateDepartmentTasks)
ClientInputs ==
  { t \in TaskInputs : t.priority = "high" /\ t.deadline = 24 }

ReceiveFromClient ==
  /\ received < MaxTasks
  /\ \E input \in ClientInputs : ReceiveTask(input)
  /\ UNCHANGED <<gateVars, agentVars, driverVars>>

Statuses == {"online", "offline", "busy"}

\* receiveTask called often enough for the list to pass five tasks
ReceiveUnderLoad ==
  /\ received < MaxLoad
  /\ \E input \in ClientInputs : ReceiveTask(input)
  /\ UNCHANGED <<gateVars, agentVars, driverVars>>

\* `public status`: the field is assigned from outside the class
StatusAssigned ==
  /\ \E s \in Statuses \ {status} : status' = s
  /\ UNCHANGED <<currentTasks, performance, processing, started, received,
                 thrown, uncaught, returned>>
  /\ UNCHANGED <<gateVars, agentVars, driverVars>>

\* what a reference held by a returned status object points at: the manager's
\* own array and its own performance object, both only ever updated in place
Deref(ref) ==
  CASE ref = "this.currentTasks" -> currentTasks
    [] ref = "this.performance" -> performance

\* ContentManager.getStatus(): a new object; name, department and status are
\* copied as values, currentTasks and performance as references.  `seen` keeps
\* what the caller read through the object when it was returned.
getStatus ==
  [name |-> "Content Manager", department |-> "content", status |-> status,
   currentTasks |-> "this.currentTasks", performance |-> "this.performance",
   seen |-> [currentTasks |-> currentTasks, performance |-> performance]]

GetStatus ==
  /\ returned' = getStatus
  /\ returned' # returned
  /\ UNCHANGED <<status, currentTasks, performance, processing, started, received,
                 thrown, uncaught>>
  /\ UNCHANGED <<gateVars, agentVars, driverVars>>

-----------------------------------------------------------------------------
(* HelmarCEO (agents/ceo/helmar.ts)                                        *)
(*                                                                         *)
(* Every promise the agent awaits comes from an async method of its own    *)
(* that has no timer or I/O, so each continuation is a microtask: a call   *)
(* of a public method runs to its return before the next timer or HTTP     *)
(* callback is taken.  `run` holds the one call in progress, with its      *)
(* position (the method whose promise it awaits) and its locals.           *)
(* A Date is kept as its calendar day; a deadline as its offset in hours   *)
(* from the Date.now() it was computed from; uuidv4() yields an id in use  *)
(* nowhere in the state (the least such number).                           *)

\* initializeDepartments: the Map's keys in insertion order
DepartmentNames == <<"content", "production", "distribution", "revenue">>

\* initializeDepartments: the DepartmentManager stored per key
InitialDepartments ==
  [d \in {DepartmentNames[i] : i \in 1..Len(DepartmentNames)} |->
     [name |-> d, department |-> d, status |-> "online", currentTasks |-> <<>>,
      performance |-> [tasksCompleted |-> 0, tasksTotal |-> 0,
                       successRate |-> <<0, 1>>, responseTime |-> 0]]]

\* HelmarCEO.analyzePerformance (systemUptime, a function of Date.now(), left out)
analyzePerformance ==
  [tasksCompleted |-> 45, tasksTotal |-> 50, successRate |-> <<9, 10>>,
   responseTime |-> 150]

\* Variant of calculateBudgetAllocation: marketing takes 20% instead of 15%
calculateBudgetAllocation_MarketingTwenty ==
  LET totalBudget == Min(BUDGET_LIMIT, 800)
  IN  [total |-> totalBudget,
       content |-> (totalBudget * 30) \div 100,
       production |-> (totalBudget * 25) \div 100,
       distribution |-> (totalBudget * 25) \div 100,
       marketing |-> (totalBudget * 20) \div 100,
       operations |-> (totalBudget * 5) \div 100]

\* HelmarCEO.calculateBudgetAllocation (the products total * 0.3, * 0.25,
\* * 0.15 and * 0.05 are whole numbers for the total of 800 the code uses)
calculateBudgetAllocation ==
  LET totalBudget == Min(BUDGET_LIMIT, 800)
  IN  [total |-> totalBudget,
       content |-> (totalBudget * 30) \div 100,
       production |-> (totalBudget * 25) \div 100,
       distribution |-> (totalBudget * 25) \div 100,
       marketing |-> (totalBudget * 15) \div 100,
       operations |-> (totalBudget * 5) \div 100]

PlanIds(plan) ==
  IF plan = Null THEN {}
  ELSE TaskIds(plan.departmentTasks)
         \cup { plan.priorities[i].id : i \in 1..Len(plan.priorities) }

StrategyIds(s) == IF s = Null THEN {} ELSE {s.id}

RunIds ==
  (IF "tasks" \in DOMAIN run THEN TaskIds(run.tasks) ELSE {})
    \cup (IF "strategy" \in DOMAIN run THEN StrategyIds(run.strategy) ELSE {})

\* every id some object of the state carries
UsedIds ==
  PlanIds(dailyPlan) \cup UNION { PlanIds(emitted[i]) : i \in 1..Len(emitted) }
    \cup StrategyIds(currentStrategy) \cup { s.id : s \in implemented }
    \cup RunIds

\* uuidv4(), called k times: k ids not in use, smallest first
RECURSIVE uuidv4(_, _)
uuidv4(k, used) ==
  IF k = 0 THEN <<>>
  ELSE LET id == CHOOSE n \in 1..(Cardinality(used) + 1) : n \notin used
       IN  <<id>> \o uuidv4(k - 1, used \cup {id})

\* Variant of generateDepartmentTasks: taskIds derived from the department, not
\* drawn afresh
generateDepartmentTasks_FixedIds(ids) ==
  << [department |-> "content", taskId |-> 1, priority |-> "high",
      deadline |-> 24, assignedTo |-> "content-manager", status |-> "pending"],
     [department |-> "production", taskId |-> 2, priority |-> "medium",
      deadline |-> 48, assignedTo |-> "production-manager", status |-> "pending"],
     [department |-> "distribution", taskId |-> 3, priority |-> "high",
      deadline |-> 12, assignedTo |-> "distribution-manager", status |-> "pending"],
     [department |-> "revenue", taskId |-> 4, priority |-> "medium",
      deadline |-> 36, assignedTo |-> "revenue-manager", status |-> "pending"] >>

\* HelmarCEO.generateDepartmentTasks, given the four uuids it draws
generateDepartmentTasks(ids) ==
  << [department |-> "content", taskId |-> ids[1], priority |-> "high",
      deadline |-> 24, assignedTo |-> "content-manager", status |-> "pending"],
     [department |-> "production", taskId |-> ids[2], priority |-> "medium",
      deadline |-> 48, assignedTo |-> "production-manager", status |-> "pending"],
     [department |-> "distribution", taskId |-> ids[3], priority |-> "high",
      deadline |-> 12, assignedTo |-> "distribution-manager", status |-> "pending"],
     [department |-> "revenue", taskId |-> ids[4], priority |-> "medium",
      deadline |-> 36, assignedTo |-> "revenue-manager", status |-> "pending"] >>

\* HelmarCEO.identifyPriorities, given the two uuids it draws
identifyPriorities(ids) ==
  << [id |-> ids[1], importance |-> "critical", deadline |-> 24, status |-> "pending"],
     [id |-> ids[2], importance |-> "high", deadline |-> 48, status |-> "pending"] >>

\* budget committed without approval on calendar day d: the allocations of the
\* plans made that day and the budgets of the strategies adopted that day
SpentOn(d) ==
  LET planTotal[i \in 0..Len(emitted)] ==
        IF i = 0 THEN 0
        ELSE planTotal[i - 1]
               + (IF emitted[i].date = d THEN emitted[i].budgetAllocation.total ELSE 0)
      adopted == { s \in implemented : s.date = d }
      RECURSIVE sum(_)
      sum(S) == IF S = {} THEN 0
                ELSE LET s == CHOOSE x \in S : TRUE IN s.budget + sum(S \ {s})
  IN  planTotal[Len(emitted)] + sum(adopted)

\* the four awaited steps of the loop body of manageDepartments
ManageSteps == <<"checkDepartmentHealth", "assignTasks", "monitorProgress",
                 "optimizePerformance">>

NotManaged ==
  [outcome |-> "none", steps |-> [d \in DOMAIN InitialDepartments |-> 0],
   caught |-> {}]

NoAgent ==
  /\ currentStrategy = Null
  /\ dailyPlan = Null
  /\ issues = <<>>
  /\ achievements = <<>>
  /\ departments = InitialDepartments
  /\ run = Idle
  /\ emitted = <<>>
  /\ lastReport = Null
  /\ implemented = {}
  /\ monitored = {}
  /\ manage = NotManaged
  /\ failures = <<>>
  /\ suspended = <<>>

\* a call is entered: a call waiting at an await stays suspended behind it
Enter(call) ==
  /\ run' = call
  /\ suspended' = IF run = Idle THEN suspended ELSE Append(suspended, run)

\* a call has settled: the call suspended last, if any, is resumed at its await
Settle ==
  /\ run' = IF suspended = <<>> THEN Idle ELSE suspended[Len(suspended)]
  /\ suspended' = SubSeq(suspended, 1, Len(suspended) - 1)

\* the object a `{ ... }` literal of morningBriefing creates: objects are
\* numbered in creation order, and this.dailyPlan holds the one created last
NewPlanObject == IF dailyPlan = Null THEN 1 ELSE dailyPlan.object + 1

\* the caller's code after `await this.helmarAgent.<method>()` (orchestrator.ts,
\* run-helmar.ts): start() enters continuousOperation, runHelmar goes on to its
\* next call, a cron callback or an HTTP handler ends
CallerResumes(by) ==
  /\ loop' = IF by = "start" THEN "sleeping" ELSE loop
  /\ scriptPc' = IF by = "script" THEN scriptPc + 1 ELSE scriptPc
  /\ UNCHANGED <<mode, isRunning, proc, day, slot, uptime, due>>

\* the caller's catch block around `await this.helmarAgent.<method>()`: start()
\* and runHelmar log and call process.exit(1); a cron callback logs; an HTTP
\* handler logs and answers 500
CallerCatches_ExitsOnAnyError(by) ==
  /\ proc' = "exited1"
  /\ UNCHANGED <<mode, isRunning, loop, day, slot, uptime, due, scriptPc>>

CallerCatches(by) ==
  /\ proc' = IF by \in {"start", "script"} THEN "exited1" ELSE proc
  /\ UNCHANGED <<mode, isRunning, loop, day, slot, uptime, due, scriptPc>>

\* ---- morningBriefing

\* entry, up to `await this.analyzePerformance()`
morningBriefing(by) ==
  /\ Len(emitted) < MaxBriefings
  /\ Enter([op |-> "morningBriefing", by |-> by, pc |-> "analyzePerformance",
            today |-> day])
  /\ UNCHANGED <<currentStrategy, dailyPlan, issues, achievements, departments,
                 emitted, lastReport, implemented, monitored, manage, failures>>

\* resumed with the performance; up to `await this.generateDepartmentTasks()`
BriefingBudgetAndTasks ==
  /\ run.op = "morningBriefing" /\ run.pc = "analyzePerformance"
  /\ run' = [op |-> run.op, by |-> run.by, pc |-> "generateDepartmentTasks",
             today |-> run.today,
             performance |-> analyzePerformance,
             budget |-> calculateBudgetAllocation,
             tasks |-> generateDepartmentTasks(uuidv4(4, UsedIds))]
  /\ UNCHANGED <<currentStrategy, dailyPlan, issues, achievements, departments,
                 emitted, lastReport, implemented, monitored, manage, failures>>
  /\ UNCHANGED <<gateVars, cmVars, driverVars, suspended>>

\* Variant of BriefingPlan: an existing plan object is refilled in place instead
\* of being replaced by a new object
BriefingPlan_UpdatesInPlace ==
  /\ run.op = "morningBriefing" /\ run.pc = "generateDepartmentTasks"
  /\ dailyPlan' = [object |-> IF dailyPlan = Null THEN 1 ELSE dailyPlan.object,
                   date |-> run.today,
                   budgetAllocation |-> run.budget,
                   departmentTasks |-> run.tasks,
                   priorities |-> identifyPriorities(uuidv4(2, UsedIds))]
  /\ run' = [op |-> run.op, by |-> run.by, pc |-> "distributeDailyPlan",
             today |-> run.today, performance |-> run.performance,
             budget |-> run.budget, tasks |-> run.tasks,
             built |-> dailyPlan'.object]
  /\ UNCHANGED <<currentStrategy, issues, achievements, departments, emitted,
                 lastReport, implemented, monitored, manage, failures>>
  /\ UNCHANGED <<gateVars, cmVars, driverVars, suspended>>

\* resumed with the tasks; up to `await this.distributeDailyPlan()`
BriefingPlan ==
  /\ run.op = "morningBriefing" /\ run.pc = "generateDepartmentTasks"
  /\ dailyPlan' = [object |-> NewPlanObject,
                   date |-> run.today,
                   budgetAllocation |-> run.budget,
                   departmentTasks |-> run.tasks,
                   priorities |-> identifyPriorities(uuidv4(2, UsedIds))]
  /\ run' = [op |-> run.op, by |-> run.by, pc |-> "distributeDailyPlan",
             today |-> run.today, performance |-> run.performance,
             budget |-> run.budget, tasks |-> run.tasks,
             built |-> NewPlanObject]
  /\ UNCHANGED <<currentStrategy, issues, achievements, departments, emitted,
                 lastReport, implemented, monitored, manage, failures>>
  /\ UNCHANGED <<gateVars, cmVars, driverVars, suspended>>

\* `return this.dailyPlan`
BriefingReturn ==
  /\ run.op = "morningBriefing" /\ run.pc = "distributeDailyPlan"
  /\ emitted' = Append(emitted, dailyPlan)
  /\ Settle
  /\ CallerResumes(run.by)
  /\ UNCHANGED <<currentStrategy, dailyPlan, issues, achievements, departments,
                 lastReport, implemented, monitored, manage, failures>>
  /\ UNCHANGED <<gateVars, cmVars>>

\* a promise morningBriefing awaits (analyzePerformance, generateDepartmentTasks
\* or distributeDailyPlan) rejects: morningBriefing has no catch block, the
\* error reaches its caller.  At distributeDailyPlan the plan has already been
\* assigned.
BriefingThrows ==
  /\ run.op = "morningBriefing"
  /\ Len(failures) < MaxFailures
  /\ Settle
  /\ CallerCatches(run.by)
  /\ failures' = Append(failures,
                        [by |-> run.by, planned |-> Len(emitted),
                         stopped |-> proc' # proc \/ isRunning' # isRunning])
  /\ UNCHANGED <<currentStrategy, dailyPlan, issues, achievements, departments,
                 emitted, lastReport, implemented, monitored, manage>>
  /\ UNCHANGED <<gateVars, cmVars>>

\* ---- makeStrategicDecisions

\* entry, through the awaits of analyzePerformance, analyzeMarketTrends and
\* analyzeCompetitors: each returns a literal and is resumed in turn
makeStrategicDecisions(by) ==
  /\ Enter([op |-> "makeStrategicDecisions", by |-> by, pc |-> "analyzeCompetitors",
            entryStrategy |-> currentStrategy, entrySpent |-> SpentOn(day)])
  /\ UNCHANGED <<currentStrategy, dailyPlan, issues, achievements, departments,
                 emitted, lastReport, implemented, monitored, manage, failures>>

\* Variant of StrategyDecide: currentStrategy is assigned before the autonomy check
StrategyDecide_AdoptsBeforeCheck ==
  LET strategy == [id |-> uuidv4(1, UsedIds)[1],
                   budget |-> Min(BUDGET_LIMIT, 800),
                   date |-> day]
  IN  /\ run.op = "makeStrategicDecisions" /\ run.pc = "analyzeCompetitors"
      /\ currentStrategy' = strategy
      /\ IF canDecideAutonomously(STRATEGIC_ACTION)
         THEN /\ implemented' = implemented \cup {strategy}
              /\ run' = [op |-> run.op, by |-> run.by, pc |-> "implementStrategy",
                         entryStrategy |-> run.entryStrategy,
                         entrySpent |-> run.entrySpent, strategy |-> strategy]
         ELSE /\ run' = [op |-> run.op, by |-> run.by, pc |-> "requestApproval",
                         entryStrategy |-> run.entryStrategy,
                         entrySpent |-> run.entrySpent, strategy |-> strategy]
              /\ UNCHANGED implemented
      /\ UNCHANGED <<dailyPlan, issues, achievements, departments, emitted,
                     lastReport, monitored, manage, failures>>
      /\ UNCHANGED <<gateVars, cmVars, driverVars, suspended>>

\* analyzeCompetitors resumed: the strategy is built and the autonomy check
\* decides between implementStrategy and requestApproval
StrategyDecide ==
  LET strategy == [id |-> uuidv4(1, UsedIds)[1],
                   budget |-> Min(BUDGET_LIMIT, 800),
                   date |-> day]
  IN  /\ run.op = "makeStrategicDecisions" /\ run.pc = "analyzeCompetitors"
      /\ IF canDecideAutonomously(STRATEGIC_ACTION)
         THEN /\ currentStrategy' = strategy
              /\ implemented' = implemented \cup {strategy}
              /\ run' = [op |-> run.op, by |-> run.by, pc |-> "implementStrategy",
                         entryStrategy |-> run.entryStrategy,
                         entrySpent |-> run.entrySpent, strategy |-> strategy]
         ELSE /\ run' = [op |-> run.op, by |-> run.by, pc |-> "requestApproval",
                         entryStrategy |-> run.entryStrategy,
                         entrySpent |-> run.entrySpent, strategy |-> strategy]
              /\ UNCHANGED <<currentStrategy, implemented>>
      /\ UNCHANGED <<dailyPlan, issues, achievements, departments, emitted,
                     lastReport, monitored, manage, failures>>
  /\ UNCHANGED <<gateVars, cmVars, driverVars, suspended>>

\* `return strategy`
StrategyReturn ==
  /\ run.op = "makeStrategicDecisions"
  /\ run.pc \in {"implementStrategy", "requestApproval"}
  /\ Settle
  /\ CallerResumes(run.by)
  /\ UNCHANGED <<currentStrategy, dailyPlan, issues, achievements, departments,
                 emitted, lastReport, implemented, monitored, manage, failures>>
  /\ UNCHANGED <<gateVars, cmVars>>

\* ---- manageDepartments

\* Variant of manageDepartments: the first step of every department is started
\* on entry, before any department has been awaited
manageDepartments_StartsAll(by) ==
  /\ Enter([op |-> "manageDepartments", by |-> by, dept |-> 1])
  /\ manage' = [outcome |-> "running",
                steps |-> [d \in DOMAIN InitialDepartments |-> 1],
                caught |-> {}]
  /\ UNCHANGED <<currentStrategy, dailyPlan, issues, achievements, departments,
                 emitted, lastReport, implemented, monitored, failures>>

\* entry: the loop reaches its first department
manageDepartments(by) ==
  /\ Enter([op |-> "manageDepartments", by |-> by, dept |-> 1])
  /\ manage' = [NotManaged EXCEPT !.outcome = "running"]
  /\ UNCHANGED <<currentStrategy, dailyPlan, issues, achievements, departments,
                 emitted, lastReport, implemented, monitored, failures>>

\* one pass of the loop body: checkDepartmentHealth, assignTasks, monitorProgress
\* and optimizePerformance are awaited in turn; their bodies are empty, so none
\* throws and the catch block is not entered.  After the last department the
\* call returns.
ManageDepartment ==
  /\ run.op = "manageDepartments"
  /\ monitored' = monitored \cup {DepartmentNames[run.dept]}
  /\ IF run.dept < Len(DepartmentNames)
     THEN /\ run' = [run EXCEPT !.dept = @ + 1]
          /\ manage' = [manage EXCEPT !.steps[DepartmentNames[run.dept]] =
                                        Len(ManageSteps)]
          /\ UNCHANGED <<driverVars, suspended>>
     ELSE /\ Settle
          /\ manage' = [manage EXCEPT !.steps[DepartmentNames[run.dept]] =
                                        Len(ManageSteps),
                                      !.outcome = "returned"]
          /\ CallerResumes(run.by)
  /\ UNCHANGED <<currentStrategy, dailyPlan, issues, achievements, departments,
                 emitted, lastReport, implemented, failures>>
  /\ UNCHANGED <<gateVars, cmVars>>

\* Variant of ManageDepartmentThrows: the error of a step is not caught in the
\* loop and leaves manageDepartments
ManageDepartmentThrows_Rethrows ==
  /\ run.op = "manageDepartments"
  /\ \E k \in 1..Len(ManageSteps) :
       LET d == DepartmentNames[run.dept]
       IN  /\ monitored' = IF \E j \in 1..(k - 1) : ManageSteps[j] = "monitorProgress"
                             THEN monitored \cup {d} ELSE monitored
           /\ manage' = [manage EXCEPT !.steps[d] = k - 1, !.outcome = "threw"]
           /\ Settle
           /\ CallerCatches(run.by)
  /\ UNCHANGED <<currentStrategy, dailyPlan, issues, achievements, departments,
                 emitted, lastReport, implemented, failures>>
  /\ UNCHANGED <<gateVars, cmVars>>

\* one pass of the loop body in which the k-th awaited step rejects: the steps
\* before it have run, the catch block logs and awaits handleDepartmentError
\* (which logs), and the loop goes on with the next department or ends
ManageDepartmentThrows ==
  /\ run.op = "manageDepartments"
  /\ \E k \in 1..Len(ManageSteps) :
       LET d == DepartmentNames[run.dept]
           last == run.dept = Len(DepartmentNames)
       IN  /\ monitored' = IF \E j \in 1..(k - 1) : ManageSteps[j] = "monitorProgress"
                             THEN monitored \cup {d} ELSE monitored
           /\ manage' = [manage EXCEPT !.steps[d] = k - 1,
                                       !.caught = @ \cup {d},
                                       !.outcome = IF last THEN "returned" ELSE @]
           /\ IF last
              THEN /\ Settle
                   /\ CallerResumes(run.by)
              ELSE /\ run' = [run EXCEPT !.dept = @ + 1]
                   /\ UNCHANGED <<driverVars, suspended>>
  /\ UNCHANGED <<currentStrategy, dailyPlan, issues, achievements, departments,
                 emitted, lastReport, implemented, failures>>
  /\ UNCHANGED <<gateVars, cmVars>>

\* ---- eveningReport

\* entry, through the awaits of analyzePerformance, calculateRevenue and
\* analyzeContentMetrics: each returns a literal and is resumed in turn
eveningReport(by) ==
  /\ Enter([op |-> "eveningReport", by |-> by, pc |-> "analyzeContentMetrics"])
  /\ UNCHANGED <<currentStrategy, dailyPlan, issues, achievements, departments,
                 emitted, lastReport, implemented, monitored, manage, failures>>

\* currentIssues and todaysAchievements are filtered, the report is built, up to `await this.sendReport()`
\* (revenue, content and tomorrowsPlan are literals of the source, left out)
ReportBuild ==
  /\ run.op = "eveningReport" /\ run.pc = "analyzeContentMetrics"
  /\ run' = [op |-> run.op, by |-> run.by, pc |-> "sendReport",
             report |->
               [date |-> day,
                performance |-> analyzePerformance,
                issues |-> SelectSeq(issues, LAMBDA i : i.status # "resolved"),
                achievements |-> SelectSeq(achievements, LAMBDA a : a.date = day)]]
  /\ UNCHANGED <<currentStrategy, dailyPlan, issues, achievements, departments,
                 emitted, lastReport, implemented, monitored, manage, failures>>
  /\ UNCHANGED <<gateVars, cmVars, driverVars, suspended>>

\* Variant of ReportReturn: returning the report closes the day and drops the
\* plan
ReportReturn_DropsPlan ==
  /\ run.op = "eveningReport" /\ run.pc = "sendReport"
  /\ lastReport' = run.report
  /\ monitored' = {}
  /\ dailyPlan' = Null
  /\ Settle
  /\ CallerResumes(run.by)
  /\ UNCHANGED <<currentStrategy, issues, achievements, departments,
                 emitted, implemented, manage, failures>>
  /\ UNCHANGED <<gateVars, cmVars>>

\* `return report`
ReportReturn ==
  /\ run.op = "eveningReport" /\ run.pc = "sendReport"
  /\ lastReport' = run.report
  /\ monitored' = {}
  /\ Settle
  /\ CallerResumes(run.by)
  /\ UNCHANGED <<currentStrategy, dailyPlan, issues, achievements, departments,
                 emitted, implemented, manage, failures>>
  /\ UNCHANGED <<gateVars, cmVars>>

-----------------------------------------------------------------------------
(* ContentFactoryOrchestrator (orchestrator.ts)                            *)
(*                                                                         *)
(* The wall clock advances in half-hour slots, the grain of the cron       *)
(* expressions.  On entering a slot the callbacks scheduled for it become  *)
(* due; each runs as one timer callback, in any order, before the clock    *)
(* moves on.  HTTP requests and signals arrive at any time in between.     *)

SlotsPerDay == 48

\* the cron expressions of setupScheduledTasks, by slot of the day
CronJobsAt(s) ==
  {"manageDepartments"}                                       \* */30 * * * *
    \cup (IF s % 8 = 0 THEN {"makeStrategicDecisions"} ELSE {})  \* 0 */4 * * *
    \cup (IF s = 18 THEN {"morningBriefing"} ELSE {})             \* 0 9 * * *
    \cup (IF s = 36 THEN {"eveningReport"} ELSE {})               \* 0 18 * * *

\* Variant of Serving: a callback is also taken while an agent call waits at an
\* await, as it would be if the awaited step yielded to the event loop
Serving_DuringAwait ==
  mode = "orchestrator" /\ proc \in {"up", "shuttingDown"} /\ suspended = <<>>

\* a timer callback, an HTTP handler or a signal handler is taken from the event
\* loop: every promise the agent awaits is already settled, so the
\* continuations of a call run as microtasks, before the next callback
Serving == mode = "orchestrator" /\ proc \in {"up", "shuttingDown"} /\ run = Idle

\* Variant of Start: continuousOperation is entered without the initial briefing
Start_WithoutBriefing ==
  /\ mode = "orchestrator" /\ proc = "constructed"
  /\ isRunning' = TRUE
  /\ proc' = "up"
  /\ loop' = "sleeping"
  /\ UNCHANGED <<mode, day, slot, uptime, due, scriptPc, gateVars, cmVars, agentVars>>

\* ContentFactoryOrchestrator.start, up to the first await of morningBriefing
Start ==
  /\ mode = "orchestrator" /\ proc = "constructed"
  /\ isRunning' = TRUE
  /\ proc' = "up"
  /\ morningBriefing("start")
  /\ UNCHANGED <<mode, loop, day, slot, uptime, due, scriptPc, gateVars, cmVars>>

\* continuousOperation: the 5-minute sleep ends and the loop condition is read
ContinuousOperation ==
  /\ Serving /\ loop = "sleeping"
  /\ loop' = IF isRunning THEN "sleeping" ELSE "ended"
  /\ UNCHANGED <<mode, isRunning, proc, day, slot, uptime, due, scriptPc,
                 gateVars, cmVars, agentVars>>

\* GET /api/helmar/status
HttpStatus ==
  /\ Serving
  /\ analyzePerformance.tasksTotal > 0
  /\ UNCHANGED vars

\* POST /api/helmar/briefing
HttpBriefing ==
  /\ Serving
  /\ morningBriefing("http")
  /\ UNCHANGED <<driverVars, gateVars, cmVars>>

\* GET /api/helmar/report
HttpReport ==
  /\ Serving
  /\ eveningReport("http")
  /\ UNCHANGED <<driverVars, gateVars, cmVars>>

\* POST /api/helmar/strategy
HttpStrategy ==
  /\ Serving
  /\ makeStrategicDecisions("http")
  /\ UNCHANGED <<driverVars, gateVars, cmVars>>

\* POST /api/system/stop
HttpStop ==
  /\ Serving
  /\ isRunning' = FALSE
  /\ UNCHANGED <<mode, proc, loop, day, slot, uptime, due, scriptPc,
                 gateVars, cmVars, agentVars>>

\* Variant of CronCallback: the agent method is called whatever isRunning is
CronCallback_IgnoresIsRunning(job, call) ==
  /\ Serving /\ job \in due
  /\ due' = due \ {job}
  /\ call
  /\ UNCHANGED <<mode, isRunning, proc, loop, day, slot, uptime, scriptPc,
                 gateVars, cmVars>>

\* a cron callback: `if (this.isRunning) { await this.helmarAgent.<method>() }`
CronCallback(job, call) ==
  /\ Serving /\ job \in due
  /\ due' = due \ {job}
  /\ IF isRunning THEN call ELSE UNCHANGED agentVars
  /\ UNCHANGED <<mode, isRunning, proc, loop, day, slot, uptime, scriptPc,
                 gateVars, cmVars>>

CronMorningBriefing == CronCallback("morningBriefing", morningBriefing("cron"))
CronEveningReport == CronCallback("eveningReport", eveningReport("cron"))
CronManageDepartments == CronCallback("manageDepartments", manageDepartments("cron"))
CronStrategicDecisions ==
  CronCallback("makeStrategicDecisions", makeStrategicDecisions("cron"))

\* the clock reaches the next half hour
Tick ==
  /\ Serving /\ due = {}
  /\ uptime < MaxUptime
  /\ uptime' = uptime + 1
  /\ slot' = (slot + 1) % SlotsPerDay
  /\ day' = IF slot = SlotsPerDay - 1 THEN day + 1 ELSE day
  /\ due' = CronJobsAt(slot')
  /\ UNCHANGED <<mode, isRunning, proc, loop, scriptPc, gateVars, cmVars, agentVars>>

\* SIGTERM / SIGINT: ContentFactoryOrchestrator.shutdown up to its 5-second wait
Shutdown ==
  /\ Serving
  /\ isRunning' = FALSE
  /\ proc' = "shuttingDown"
  /\ UNCHANGED <<mode, loop, day, slot, uptime, due, scriptPc, gateVars, cmVars, agentVars>>

\* shutdown: the wait is over, process.exit(0)
Exit ==
  /\ Serving /\ proc = "shuttingDown"
  /\ proc' = "exited"
  /\ UNCHANGED <<mode, isRunning, loop, day, slot, uptime, due, scriptPc,
                 gateVars, cmVars, agentVars>>

-----------------------------------------------------------------------------
(* runHelmar (scripts/run-helmar.ts): the four calls, each awaited *)

ScriptCalls == <<"morningBriefing", "makeStrategicDecisions", "manageDepartments",
                 "eveningReport">>

RunHelmar ==
  /\ mode = "script" /\ proc # "exited1"
  /\ run = Idle /\ scriptPc < Len(ScriptCalls)
  /\ CASE ScriptCalls[scriptPc + 1] = "morningBriefing" -> morningBriefing("script")
       [] ScriptCalls[scriptPc + 1] = "makeStrategicDecisions" ->
            makeStrategicDecisions("script")
       [] ScriptCalls[scriptPc + 1] = "manageDepartments" -> manageDepartments("script")
       [] ScriptCalls[scriptPc + 1] = "eveningReport" -> eveningReport("script")
  /\ UNCHANGED <<driverVars, gateVars, cmVars>>

NoDriver ==
  /\ isRunning = FALSE
  /\ proc = "constructed"
  /\ loop = "none"
  /\ day = 1
  /\ uptime = 0
  /\ due = {}
  /\ scriptPc = 0

-----------------------------------------------------------------------------
(* Specifications *)

\* the autonomy check on its own
InitGate ==
  /\ gateAction \in ActionInputs
  /\ gateResult = <<>>
  /\ NoManager /\ NoAgent /\ NoDriver
  /\ mode = "script" /\ slot = 0

NextGate == Evaluate

SpecGate == InitGate /\ [][NextGate]_vars

\* one ContentManager
InitCM ==
  /\ NoGate /\ NoManager /\ NoAgent /\ NoDriver
  /\ mode = "script" /\ slot = 0

NextCM == Receive \/ WorkReturns \/ WorkThrows

SpecCM == InitCM /\ [][NextCM]_vars

\* one ContentManager and a client that also assigns its public field and
\* reads it through getStatus
NextCMClient ==
  ReceiveFromClient \/ WorkReturns \/ WorkThrows \/ StatusAssigned \/ GetStatus

SpecCMClient == InitCM /\ [][NextCMClient]_vars

\* one ContentManager given more tasks than the five it takes without
\* turning busy
NextCMLoad == ReceiveUnderLoad \/ WorkReturns \/ WorkThrows

SpecCMLoad == InitCM /\ [][NextCMLoad]_vars

\* a timer that the work of some task waits on fires: the processTask of that
\* task is resumed and ends one way or the other
TimersFire == WorkReturns \/ WorkThrows

\* the manager under load, with started timers firing: as long as a task is
\* being processed, some task ends
SpecCMLive == SpecCMLoad /\ WF_vars(TimersFire)

\* the half hours the process may be started in: the one before the 09:00
\* briefing, the one before the 18:00 report, the one before midnight
StartSlots == {17, 35, 47}

\* one HelmarCEO under the orchestrator or under runHelmar
Init ==
  /\ NoGate /\ NoManager /\ NoAgent /\ NoDriver
  /\ mode \in {"orchestrator", "script"}
  /\ slot \in StartSlots

Next ==
  \/ Start \/ ContinuousOperation
  \/ HttpStatus \/ HttpBriefing \/ HttpReport \/ HttpStrategy \/ HttpStop
  \/ CronMorningBriefing \/ CronEveningReport \/ CronManageDepartments
  \/ CronStrategicDecisions
  \/ Tick \/ Shutdown \/ Exit
  \/ RunHelmar
  \/ BriefingBudgetAndTasks \/ BriefingPlan \/ BriefingReturn
  \/ StrategyDecide \/ StrategyReturn
  \/ ManageDepartment
  \/ ReportBuild \/ ReportReturn

Spec == Init /\ [][Next]_vars

\* the continuations of the agent call in progress: microtasks, run as soon as
\* the current callback is over
Microtasks ==
  \/ BriefingBudgetAndTasks \/ BriefingPlan \/ BriefingReturn
  \/ StrategyDecide \/ StrategyReturn
  \/ ManageDepartment
  \/ ReportBuild \/ ReportReturn

\* the orchestrator with its timers and signals and the emergency stop as the
\* only HTTP route in use
InitFair == Init /\ mode = "orchestrator"

NextFair ==
  \/ Start \/ ContinuousOperation
  \/ HttpStop
  \/ CronMorningBriefing \/ CronEveningReport \/ CronManageDepartments
  \/ CronStrategicDecisions
  \/ Tick \/ Shutdown \/ Exit
  \/ Microtasks

\* with the scheduling of the event loop: the microtasks of a call run, and
\* the 5-minute timer of continuousOperation fires whatever other callbacks
\* keep arriving
SpecFair ==
  InitFair /\ [][NextFair]_vars
    /\ WF_vars(Microtasks) /\ SF_vars(ContinuousOperation)

\* Spec follows the methods the agent awaits as they stand: their bodies are
\* empty or return literals and cannot throw.  The two specifications below
\* let them reject, the case the catch block of manageDepartments and the
\* catch blocks of the callers are written for.

\* runHelmar, with steps of manageDepartments that may reject
InitManageFault == Init /\ mode = "script"

NextManageFault ==
  \/ RunHelmar
  \/ BriefingBudgetAndTasks \/ BriefingPlan \/ BriefingReturn
  \/ StrategyDecide \/ StrategyReturn
  \/ ManageDepartment \/ ManageDepartmentThrows
  \/ ReportBuild \/ ReportReturn

SpecManageFault == InitManageFault /\ [][NextManageFault]_vars

\* the orchestrator with a morningBriefing that may reject; of the HTTP routes
\* the clients use the two that plan and stop
InitBriefingFault == Init /\ mode = "orchestrator"

NextBriefingFault ==
  \/ Start \/ ContinuousOperation
  \/ HttpBriefing \/ HttpStop
  \/ CronMorningBriefing \/ CronEveningReport \/ CronManageDepartments
  \/ CronStrategicDecisions
  \/ Tick \/ Shutdown \/ Exit
  \/ BriefingBudgetAndTasks \/ BriefingPlan \/ BriefingReturn \/ BriefingThrows
  \/ StrategyDecide \/ StrategyReturn
  \/ ManageDepartment
  \/ ReportBuild \/ ReportReturn

SpecBriefingFault == InitBriefingFault /\ [][NextBriefingFault]_vars

-----------------------------------------------------------------------------
(* Properties *)

TaskOf(id) == currentTasks[IndexOf(currentTasks, id)]

AllDepartments == { DepartmentNames[i] : i \in 1..Len(DepartmentNames) }

\* C1 (Spec): the budget committed without approval within one day (the
\* allocations of the day's plans plus the budgets of the strategies adopted
\* that day) never exceeds DECISION_THRESHOLDS.BUDGET_LIMIT.
C1_BudgetWithinDailyLimit == SpentOn(day) <= BUDGET_LIMIT

\* C2 (SpecGate): an action that matches an entry of requiresApproval is
\* classified as needing approval (the check returns false), also when it
\* matches an entry of canDecideAutonomously.
C2_RequiresApprovalWins ==
  (/\ gateResult # <<>>
   /\ matchesRule(HELMAR_AUTONOMY_RULES.requiresApproval, gateAction))
    => gateResult = <<FALSE>>

\* C3 (Spec): when makeStrategicDecisions has taken the approval branch, its
\* strategy is not handed to implementStrategy, is not currentStrategy,
\* currentStrategy is what it was when the call began, and the budget committed
\* today is what it was when the call began.
C3_ApprovalLeavesStrategyUntouched ==
  (run.op = "makeStrategicDecisions" /\ run.pc = "requestApproval")
    => /\ currentStrategy = run.entryStrategy
       /\ currentStrategy # run.strategy
       /\ run.strategy \notin implemented
       /\ SpentOn(day) = run.entrySpent

\* C3 witness: a call of makeStrategicDecisions is in its approval branch
C3_Witness ==
  /\ run.op = "makeStrategicDecisions" /\ run.pc = "requestApproval"
  /\ run.strategy.budget <= BUDGET_LIMIT
  /\ dailyPlan # Null

\* C4 as stated (SpecCM): tasks are taken up for execution in priority order
\* and, within a priority, earliest deadline first.
C4_TakenUpInPriorityOrder ==
  \A i, j \in 1..Len(started) :
    i < j =>
      LET a == TaskOf(started[i])
          b == TaskOf(started[j])
      IN  \/ PriorityRank(a.priority) < PriorityRank(b.priority)
          \/ a.priority = b.priority /\ a.deadline <= b.deadline

\* C4 as amended (SpecCM): tasks are taken up for execution in the order they
\* were submitted: the n-th task of currentTasks is the n-th whose processing
\* started, whatever its priority and deadline.
C4_TakenUpInSubmissionOrder ==
  started = [i \in 1..Len(currentTasks) |-> currentTasks[i].taskId]

\* C4 witness: a low-priority task was taken up before a high-priority one, and
\* among two tasks of one priority the later deadline first
C4_Witness ==
  /\ \E i, j \in 1..Len(started) :
       /\ i < j
       /\ TaskOf(started[i]).priority = "low"
       /\ TaskOf(started[j]).priority = "high"
  /\ \E i, j \in 1..Len(started) :
       /\ i < j
       /\ TaskOf(started[i]).priority = TaskOf(started[j]).priority
       /\ TaskOf(started[i]).deadline > TaskOf(started[j]).deadline

\* C5 as stated (SpecCM): the manager executes at most one task at a time.
C5_AtMostOneTaskExecuting == Cardinality(processing) <= 1

\* C5 as amended (SpecCM): receiveTask rejects nothing: every task handed over
\* is in currentTasks, has been started, and is being processed for as long as
\* its status is pending, however many others are being processed.
C5_EveryTaskAcceptedAndStarted ==
  /\ Len(currentTasks) = received
  /\ Len(started) = received
  /\ performance.tasksTotal = received
  /\ processing = { currentTasks[i].taskId :
                      i \in { k \in 1..Len(currentTasks) :
                                currentTasks[k].status = "pending" } }

\* C5 witness: a task was accepted while another was being processed
C5_Witness == Cardinality(processing) >= 2

\* C6 as stated (SpecCM): a task whose work threw is retried at most 3 times,
\* ends in status failed and is in the issues list exactly once.
C6_FailedTaskIsFailedAndReported ==
  \A id \in thrown :
    id \notin processing =>
      /\ Occurrences(started, id) <= 3
      /\ TaskOf(id).status = "failed"
      /\ Cardinality({ k \in 1..Len(issues) : issues[k].taskId = id }) = 1

\* C6 as amended (SpecCM): a task whose work threw is not retried: it was
\* executed exactly once, is no longer processed, its status is blocked, it is
\* not counted as completed, and no Issue is recorded for it.
C6_ThrownTaskBlockedNotRetried ==
  /\ \A id \in thrown :
       /\ id \notin processing
       /\ Occurrences(started, id) = 1
       /\ TaskOf(id).status = "blocked"
  /\ performance.tasksCompleted
       = Cardinality({ i \in 1..Len(currentTasks) : currentTasks[i].status = "completed" })
  /\ issues = <<>>

\* C6 witness: a task's work threw and another task was taken up after it
C6_Witness ==
  \E id \in thrown :
    \E i, j \in 1..Len(started) :
      i < j /\ started[i] = id /\ started[j] \notin thrown
            /\ started[j] \notin processing

\* C7 (SpecCM): whenever no task is being processed (and one was received),
\* successRate = tasksCompleted / tasksTotal.
C7_SuccessRateIsCompletedOverTotal ==
  (processing = {} /\ performance.tasksTotal > 0)
    => RatioEq(performance.successRate,
               <<performance.tasksCompleted, performance.tasksTotal>>)

\* C8 (Spec): when the success rate is below TASK_SUCCESS_RATE_MINIMUM and
\* monitoring has run for every department, the evening report built next has
\* a non-empty issues list.
C8_LowSuccessRateRaisesIssue ==
  (/\ run.op = "eveningReport" /\ run.pc = "sendReport"
   /\ monitored = AllDepartments
   /\ RatioLess(run.report.performance.successRate, TASK_SUCCESS_RATE_MINIMUM))
    => Len(run.report.issues) > 0

C10_ReplanningKeepsTaskIdentities ==
  \A i, j \in 1..Len(emitted) :
    emitted[i].date = emitted[j].date
      => TaskIds(emitted[i].departmentTasks) = TaskIds(emitted[j].departmentTasks)

\* C10 as amended (Spec): every plan holds exactly four tasks, one per
\* department, all pending, with four different taskIds; the plan in force is the
\* one made last; and no taskId of one plan occurs in another.
C10_ReplanningRegeneratesTasks ==
  /\ \A i \in 1..Len(emitted) :
       LET tasks == emitted[i].departmentTasks
       IN  /\ Len(tasks) = Len(DepartmentNames)
           /\ \A k \in 1..Len(tasks) :
                tasks[k].department = DepartmentNames[k] /\ tasks[k].status = "pending"
           /\ Cardinality(TaskIds(tasks)) = Len(tasks)
  /\ \A i, j \in 1..Len(emitted) :
       i # j => TaskIds(emitted[i].departmentTasks)
                  \cap TaskIds(emitted[j].departmentTasks) = {}
  /\ (run = Idle /\ emitted # <<>>) => dailyPlan = emitted[Len(emitted)]

\* C10 witness: morningBriefing has run twice on one day
C10_Witness ==
  /\ Len(emitted) >= 2
  /\ emitted[1].date = emitted[2].date
  /\ run = Idle

\* C11 (Spec): when morningBriefing has returned, every task of the plan's
\* departmentTasks is in the currentTasks of the department manager that the
\* departments map holds under task.department.
C11_PlanTasksEnqueued ==
  (run = Idle /\ dailyPlan # Null /\ emitted # <<>>)
    => \A k \in 1..Len(dailyPlan.departmentTasks) :
         LET task == dailyPlan.departmentTasks[k]
         IN  task.taskId \in TaskIds(departments[task.department].currentTasks)

\* C12 (SpecCMClient): a manager whose status is offline accepts no task
\* (receiveTask leaves currentTasks and the counters as they were and starts
\* nothing), and records the task it did not take as an Issue.
C12_OfflineReceivesNoTasks ==
  [][(status = "offline" /\ received' > received)
       => /\ currentTasks' = currentTasks
          /\ performance' = performance
          /\ processing' = processing
          /\ Len(issues') = Len(issues) + 1]_vars

\* C13 (SpecManageFault): an error thrown by a step of managing one department is
\* contained: manageDepartments never throws, and every department the loop has
\* passed either had all four steps run or had its own error caught; when the
\* call has returned this holds of all four departments.
C13_DepartmentErrorContained ==
  /\ manage.outcome # "threw"
  /\ \A d \in AllDepartments :
       /\ d \in manage.caught <=> manage.steps[d] < Len(ManageSteps)
                                    /\ (\/ manage.outcome = "returned"
                                        \/ /\ run.op = "manageDepartments"
                                           /\ \E i \in 1..(run.dept - 1) :
                                                DepartmentNames[i] = d)
       /\ manage.outcome = "returned"
            => manage.steps[d] = Len(ManageSteps) \/ d \in manage.caught
  /\ run.op = "manageDepartments" <=> manage.outcome = "running"

\* C13 witness: the first department's health check threw, its error was
\* caught, the three departments after it had all four steps run and the call
\* returned
C13_Witness ==
  /\ manage.outcome = "returned"
  /\ manage.caught = {DepartmentNames[1]}
  /\ manage.steps[DepartmentNames[1]] = 0
  /\ \A i \in 2..Len(DepartmentNames) :
       manage.steps[DepartmentNames[i]] = Len(ManageSteps)
  /\ run = Idle /\ proc # "exited"

\* C14 (SpecManageFault): every error caught while managing a department is an
\* Issue, with a severity and that department, in the issues list of the
\* evening report built next.
C14_EveryFailureSurfaced ==
  (run.op = "eveningReport" /\ run.pc = "sendReport" /\ lastReport = Null)
    => \A d \in manage.caught :
         \E k \in 1..Len(run.report.issues) :
           /\ run.report.issues[k].department = d
           /\ "severity" \in DOMAIN run.report.issues[k]

\* C15 (SpecCM): when the work of a task throws, the task ends in the status
\* blocked and not completed, tasksCompleted counts only the tasks whose work
\* returned, and no exception reaches the caller of receiveTask: every call of
\* receiveTask has returned with its task accepted.
C15_ThrowingWorkReportsFailure ==
  /\ uncaught = {}
  /\ \A id \in thrown :
       /\ TaskOf(id).status = "blocked"
       /\ TaskOf(id).status # "completed"
  /\ performance.tasksCompleted
       = received - Cardinality(thrown) - Cardinality(processing)
  /\ TaskIds(currentTasks) = 1..received

\* C15 witness: the work of one task threw, the work of another returned, and
\* nothing is being processed any more
C15_Witness ==
  /\ \E id \in thrown : TaskOf(id).status = "blocked"
  /\ performance.tasksCompleted >= 1
  /\ processing = {}

\* C16 as stated (SpecBriefingFault): under the orchestrator a morningBriefing
\* that throws never ends the process and never stops the orchestrator,
\* whoever called it.
C16_PlanningFailureNeverFatal ==
  mode = "orchestrator"
    => /\ proc # "exited1"
       /\ \A i \in 1..Len(failures) : ~failures[i].stopped

\* C16 as amended (SpecBriefingFault): a morningBriefing that throws when
\* called from a cron callback or an HTTP handler leaves the process and
\* isRunning as they were; one that throws when called from start() ends the
\* process with exit code 1, and nothing follows it.  No briefing is started
\* again but by a later cron callback or HTTP request.
C16_PlanningFailureFatalOnlyAtStartup ==
  /\ \A i \in 1..Len(failures) :
       IF failures[i].by = "start"
       THEN /\ failures[i].stopped
            /\ i = Len(failures)
            /\ failures[i].planned = Len(emitted)
            /\ proc = "exited1" /\ run = Idle
       ELSE ~failures[i].stopped
  /\ proc = "exited1"
       => failures # <<>> /\ failures[Len(failures)].by = "start"
  /\ (failures # <<>> /\ run.op = "morningBriefing")
       => run.by \in {"cron", "http"}

\* C16 witness: after the initial briefing a briefing called by cron or over
\* HTTP threw, the process stayed up, and the next trigger produced a plan
C16_Witness ==
  /\ failures # <<>>
  /\ failures[1].by \in {"cron", "http"}
  /\ failures[1].planned = 1
  /\ Len(emitted) = 2
  /\ proc = "up" /\ isRunning

\* C18 as stated (SpecCMLoad): the manager is busy while a task it accepted is
\* being processed and online once none is.
C18_BusyWhileProcessing ==
  /\ processing # {} => status = "busy"
  /\ processing = {} => status = "online"

\* C18 as amended (SpecCMLoad): accepting a task turns the manager busy only
\* when its list then holds more than five tasks (finished ones included) and
\* otherwise leaves the status as it was; a task whose work returned turns it
\* online when no task of the list is pending or in progress and otherwise
\* leaves the status; a task whose work threw leaves the status.
C18_BusyAboveFiveTasks ==
  [][/\ received' > received
          => status' = IF Len(currentTasks') > 5 THEN "busy" ELSE status
     /\ performance'.tasksCompleted > performance.tasksCompleted
          => status' = IF \A i \in 1..Len(currentTasks') :
                             currentTasks'[i].status \notin {"pending", "in-progress"}
                        THEN "online" ELSE status
     /\ thrown' # thrown => status' = status
     /\ status' = "busy" => Len(currentTasks') > 5]_vars

\* C18 witness: the manager took a sixth task, turned busy and is online again
\* with nothing left to process
C18_Witness ==
  /\ Len(currentTasks) > 5
  /\ status = "online"
  /\ processing = {}

\* C19 (SpecCMClient): what is seen through a status object that getStatus
\* returned stays what it was when the object was returned: its currentTasks
\* list and its performance counters do not change with later receiveTask
\* calls and task completions.
C19_StatusIsImmutableSnapshot ==
  returned # Null
    => /\ Deref(returned.currentTasks) = returned.seen.currentTasks
       /\ Deref(returned.performance) = returned.seen.performance

\* C20 (Spec): the performance that analyzePerformance returned to a call in
\* progress is the rollup of the departments map: tasksCompleted and
\* tasksTotal are the sums over the departments, successRate is the least of
\* the departments' success rates.
C20_PerformanceIsDepartmentRollup ==
  LET dept(i) == departments[DepartmentNames[i]].performance
      sumCompleted[i \in 0..Len(DepartmentNames)] ==
        IF i = 0 THEN 0 ELSE sumCompleted[i - 1] + dept(i).tasksCompleted
      sumTotal[i \in 0..Len(DepartmentNames)] ==
        IF i = 0 THEN 0 ELSE sumTotal[i - 1] + dept(i).tasksTotal
      least == CHOOSE i \in 1..Len(DepartmentNames) :
                 \A j \in 1..Len(DepartmentNames) :
                   ~RatioLess(dept(j).successRate, dept(i).successRate)
      obtained == (IF "performance" \in DOMAIN run THEN {run.performance} ELSE {})
                    \cup (IF "report" \in DOMAIN run
                          THEN {run.report.performance} ELSE {})
  IN  \A p \in obtained :
        /\ p.tasksCompleted = sumCompleted[Len(DepartmentNames)]
        /\ p.tasksTotal = sumTotal[Len(DepartmentNames)]
        /\ RatioEq(p.successRate, dept(least).successRate)

\* C21 (Spec): a DailyPlan or DailyReport is not changed after it was returned.
\* Every morningBriefing builds a new plan object, so the plans returned are
\* pairwise distinct objects, and a returned plan that the agent still refers
\* to as this.dailyPlan has the fields it was returned with.  A report is a
\* local of eveningReport: what a caller received changes only when a later
\* eveningReport returns the report it has built itself.
C21_ReturnedPlanKeepsItsFields ==
  /\ \A i, j \in 1..Len(emitted) : i # j => emitted[i].object # emitted[j].object
  /\ \A i \in 1..Len(emitted) :
       (dailyPlan # Null /\ dailyPlan.object = emitted[i].object)
         => dailyPlan = emitted[i]

C21_ReturnedReportReplacedOnlyByNewReport ==
  lastReport' # lastReport
    => /\ run.op = "eveningReport" /\ run.pc = "sendReport"
       /\ lastReport' = run.report

C21_EmittedObjectsImmutable ==
  []C21_ReturnedPlanKeepsItsFields
    /\ [][C21_ReturnedReportReplacedOnlyByNewReport]_vars

\* two plans and a report have been returned, the second plan is the one the
\* agent holds and the first is a different object
C21_Witness ==
  /\ Len(emitted) = 2 /\ lastReport # Null
  /\ dailyPlan = emitted[2]
  /\ emitted[1].object # dailyPlan.object
  /\ run = Idle

C22_LaterDepartmentStartsEarly ==
  (run.op = "manageDepartments" /\ run.dept < Len(DepartmentNames))
    => \E j \in (run.dept + 1)..Len(DepartmentNames) :
         manage.steps[DepartmentNames[j]] > 0

\* C22 as amended (Spec): manageDepartments handles the departments strictly one
\* after another in the order of the departments map.  While it works on a
\* department, every earlier department is over (its four steps have run, or
\* its error was caught) and no step of a later department has been started.
C22_DepartmentsOneAfterAnother ==
  run.op = "manageDepartments"
    => \A j \in 1..Len(DepartmentNames) :
         LET d == DepartmentNames[j]
         IN  /\ j > run.dept => (manage.steps[d] = 0 /\ d \notin manage.caught)
             /\ j < run.dept =>
                  (manage.steps[d] = Len(ManageSteps) \/ d \in manage.caught)

\* the loop is at its third department: two are over, the fourth is untouched
C22_Witness ==
  /\ run.op = "manageDepartments" /\ run.dept = 3
  /\ manage.steps[DepartmentNames[1]] = Len(ManageSteps)
  /\ manage.steps[DepartmentNames[2]] = Len(ManageSteps)
  /\ manage.steps[DepartmentNames[4]] = 0

\* the budget allocations and the strategies present in a state
Allocations ==
  { emitted[i].budgetAllocation : i \in 1..Len(emitted) }
    \cup (IF dailyPlan = Null THEN {} ELSE {dailyPlan.budgetAllocation})
    \cup (IF "budget" \in DOMAIN run THEN {run.budget} ELSE {})

Strategies ==
  implemented
    \cup (IF currentStrategy = Null THEN {} ELSE {currentStrategy})
    \cup (IF "strategy" \in DOMAIN run THEN {run.strategy} ELSE {})

\* C23 (Spec): every budget allocation splits its total into content 30%,
\* production 25%, distribution 25%, marketing 15% and operations 5%; the five
\* amounts add up to the total exactly; and the total, like the budget of every
\* strategy, is at most BUDGET_LIMIT.
C23_AllocationSplitsTotalExactly ==
  /\ \A b \in Allocations :
       /\ b.content * 100 = b.total * 30
       /\ b.production * 100 = b.total * 25
       /\ b.distribution * 100 = b.total * 25
       /\ b.marketing * 100 = b.total * 15
       /\ b.operations * 100 = b.total * 5
       /\ b.content + b.production + b.distribution + b.marketing + b.operations
            = b.total
       /\ b.total <= BUDGET_LIMIT
  /\ \A st \in Strategies : st.budget <= BUDGET_LIMIT

\* a plan has been returned and a strategy has been drawn up
C23_Witness ==
  /\ emitted # <<>>
  /\ emitted[1].budgetAllocation.total = 800
  /\ emitted[1].budgetAllocation.content = 240
  /\ run.op = "makeStrategicDecisions" /\ "strategy" \in DOMAIN run
  /\ run.strategy.budget = 800

\* C25 (Spec): strategic planning within the budget limit is decided
\* autonomously.  Once makeStrategicDecisions has built its strategy (budget at
\* most BUDGET_LIMIT) it is on the autonomous branch: currentStrategy is the
\* new strategy and it has been handed to implementStrategy, not to
\* requestApproval.
C25_StrategicPlanningDecidedAutonomously ==
  (run.op = "makeStrategicDecisions" /\ "strategy" \in DOMAIN run
     /\ run.strategy.budget <= BUDGET_LIMIT)
    => /\ run.pc = "implementStrategy"
       /\ currentStrategy = run.strategy
       /\ run.strategy \in implemented

\* C26 (SpecCMLoad): when no task is mid-processing, status busy implies that
\* some task of currentTasks is pending or in-progress; the manager does not
\* stay busy once all its tasks have ended.
C26_BusyOnlyWithOpenTasks ==
  (processing = {} /\ status = "busy")
    => \E i \in 1..Len(currentTasks) :
         currentTasks[i].status \in {"pending", "in-progress"}

\* C27 (SpecCM): 0 <= tasksCompleted <= tasksTotal, successRate lies in [0,1],
\* and the division tasksCompleted / tasksTotal is never made with
\* tasksTotal = 0 (successRate is kept as <<numerator, denominator>>).
C27_CountersAndRateInRange ==
  /\ 0 <= performance.tasksCompleted
  /\ performance.tasksCompleted <= performance.tasksTotal
  /\ performance.successRate[2] > 0
  /\ 0 <= performance.successRate[1]
  /\ performance.successRate[1] <= performance.successRate[2]

\* one task has completed and another has failed: the rate is 1/2
C27_Witness ==
  /\ processing = {} /\ thrown # {}
  /\ performance.tasksCompleted = 1 /\ performance.tasksTotal = 2
  /\ performance.successRate = <<1, 2>>

\* C28 (SpecCMLive): every task passed to receiveTask eventually leaves
\* pending and is completed or blocked, however many tasks are being processed
\* at the same time; and a completed task stays completed.
C28_CompletedStaysCompleted ==
  \A i \in 1..Len(currentTasks) :
    currentTasks[i].status = "completed"
      => /\ i <= Len(currentTasks')
         /\ currentTasks'[i].taskId = currentTasks[i].taskId
         /\ currentTasks'[i].status = "completed"

C28_EveryTaskEnds ==
  /\ \A id \in 1..MaxLoad :
       (id \in processing)
         ~> (/\ id \notin processing
             /\ id \in TaskIds(currentTasks)
             /\ TaskOf(id).status \in {"completed", "blocked"})
  /\ [][C28_CompletedStaysCompleted]_vars

\* six tasks were in progress at the same time and all have ended, some
\* completed and some blocked
C28_Witness ==
  /\ received = MaxLoad /\ processing = {}
  /\ Len(started) = MaxLoad
  /\ \E i, j \in 1..Len(currentTasks) :
       currentTasks[i].status = "completed" /\ currentTasks[j].status = "blocked"
  /\ \A i \in 1..Len(currentTasks) :
       currentTasks[i].status \in {"completed", "blocked"}

\* C29 (SpecFair): a cron callback starts an agent operation only while
\* isRunning is true; once the emergency stop or shutdown has made isRunning
\* false it stays false; and the continuousOperation loop then comes to an end
\* (its sleep is over and it reads isRunning, unless the process has exited
\* before that).
C29_CronOnlyWhileRunning ==
  (run # Idle /\ run.by = "cron") => isRunning

C29_StoppedStaysStopped ==
  (proc # "constructed" /\ ~isRunning) => ~isRunning'

C29_StoppedForGood ==
  /\ []C29_CronOnlyWhileRunning
  /\ [][C29_StoppedStaysStopped]_vars
  /\ (~isRunning /\ loop = "sleeping")
       ~> (loop = "ended" \/ proc \in {"exited", "exited1"})

\* stopped before the 09:00 callback ran: the callback has run without making
\* a briefing (the only plan is the one of the start-up), and the loop has ended
C29_Witness ==
  /\ ~isRunning /\ proc = "up" /\ loop = "ended" /\ run = Idle
  /\ slot = 18 /\ uptime = 1
  /\ "morningBriefing" \notin due
  /\ Len(emitted) = 1

\* C30 (Spec): eveningReport and analyzePerformance are read operations.  No
\* step of an eveningReport call, from its entry to its return, changes
\* departments, dailyPlan, currentStrategy, issues or achievements
\* (analyzePerformance, which GET /api/helmar/status calls, returns a literal
\* and is a step that changes nothing); and the issues of the report are the
\* stored issues whose status is not resolved, in their order.
C30_ReportStepLeavesAgentState ==
  (run.op = "eveningReport" \/ run'.op = "eveningReport")
    => UNCHANGED <<departments, dailyPlan, currentStrategy, issues, achievements>>

C30_ReportListsUnresolvedIssues ==
  (run.op = "eveningReport" /\ run.pc = "sendReport")
    => run.report.issues = SelectSeq(issues, LAMBDA i : i.status # "resolved")

C30_ReadOperationsChangeNothing ==
  /\ [][C30_ReportStepLeavesAgentState]_vars
  /\ []C30_ReportListsUnresolvedIssues

\* a report has been returned while the agent holds a plan, and the plan is
\* still the one returned last
C30_Witness ==
  /\ lastReport # Null /\ run = Idle
  /\ dailyPlan # Null /\ emitted # <<>>
  /\ dailyPlan = emitted[Len(emitted)]
  /\ lastReport.issues = <<>>

=============================================================================
